---- MODULE Spec2Model ----
(***************************************************************************)
(* A model of unixsocketqueue.py: UnixSocketQueue binds a unix socket,     *)
(* starts a _SocketListener in a child process, and hands the lines the    *)
(* listener parses to the caller through a multiprocessing.Queue.          *)
(*                                                                         *)
(* Bytes are integers 0..255 and decoded text is a sequence of code        *)
(* points.  The byte alphabets used below hold ASCII bytes, the two bytes  *)
(* of U+00E9 (195 169) and the byte 255, which no UTF-8 text contains; on  *)
(* these the 1- and 2-byte forms of UTF-8 modelled here are exact.         *)
(***************************************************************************)
EXTENDS Integers, Sequences, FiniteSets, TLC

\* ------------------------------------------------------------------ bounds
\* longest text a peer sends in the reassembly specification
MaxLen == 4
\* longest line given to _strip_ansi in the stripping specification
MaxStripLen == 6

\* --------------------------------------------------------- program constants
\* "\n", the line terminator readline() and endswith() look for
LF == 10
\* \x1B, the first character of the pattern of _strip_ansi
ESC == 27
\* "[", the second character of the pattern of _strip_ansi
LBRACKET == 91
\* conn.recv(4096)
RecvSize == 4096
\* socket.listen(1)
Backlog == 1

\* ------------------------------------------------------------ sequences
SeqsUpTo(S, n) == UNION {[1..k -> S] : k \in 0..n}

Drop(s, n) == SubSeq(s, n + 1, Len(s))

Take(s, n) == SubSeq(s, 1, n)

IsPrefix(s, t) == Len(s) <= Len(t) /\ Take(t, Len(s)) = s

\* ------------------------------------------------------------ _strip_ansi
\* the classes of the pattern \x1B\[[0-?]*[ -/]*[@-~]
IsParam(c) == c \in 48..63

IsIntermediate(c) == c \in 32..47

IsFinal(c) == c \in 64..126

\* the first index >= j of text that is not a parameter character
ParamEnd(text, j) ==
  CHOOSE k \in j..(Len(text) + 1) :
    /\ \A m \in j..(k - 1) : IsParam(text[m])
    /\ (k = Len(text) + 1 \/ ~IsParam(text[k]))

\* the first index >= j of text that is not an intermediate character
IntermediateEnd(text, j) ==
  CHOOSE k \in j..(Len(text) + 1) :
    /\ \A m \in j..(k - 1) : IsIntermediate(text[m])
    /\ (k = Len(text) + 1 \/ ~IsIntermediate(text[k]))

\* the index of the last character of the match of the pattern that starts
\* at i, or 0 when the pattern does not match at i.  The three classes are
\* disjoint, so the greedy match is the only one.
MatchEnd(text, i) ==
  IF i + 1 <= Len(text) /\ text[i] = ESC /\ text[i + 1] = LBRACKET
  THEN LET q == IntermediateEnd(text, ParamEnd(text, i + 2))
       IN  IF q <= Len(text) /\ IsFinal(text[q]) THEN q ELSE 0
  ELSE 0

\* re.sub(pattern, "", text) from index i on: one left-to-right pass over
\* the non-overlapping matches
RECURSIVE re_sub(_, _)
re_sub(text, i) ==
  IF i > Len(text) THEN <<>>
  ELSE LET e == MatchEnd(text, i)
       IN  IF e > 0 THEN re_sub(text, e + 1)
           ELSE <<text[i]>> \o re_sub(text, i + 1)

_strip_ansi(text) == re_sub(text, 1)

\* text still holds a match of the pattern
HasEscape(text) == \E i \in 1..Len(text) : MatchEnd(text, i) > 0

\* ------------------------------------------------------------------ utf-8
\* bytes.decode("utf-8") accepts d: every byte is ASCII or the lead byte of a
\* 2-byte form (0xC2..0xDF) followed by a continuation byte (0x80..0xBF)
RECURSIVE utf8_valid(_)
utf8_valid(d) ==
  IF d = <<>> THEN TRUE
  ELSE IF d[1] < 128 THEN utf8_valid(Tail(d))
  ELSE IF d[1] \in 194..223 /\ Len(d) >= 2 /\ d[2] \in 128..191
       THEN utf8_valid(Drop(d, 2))
  ELSE FALSE

\* the code points of the bytes d, for d that decodes
RECURSIVE utf8_decode(_)
utf8_decode(d) ==
  IF d = <<>> THEN <<>>
  ELSE IF d[1] < 128 THEN <<d[1]>> \o utf8_decode(Tail(d))
  ELSE <<(d[1] - 192) * 64 + (d[2] - 128)>> \o utf8_decode(Drop(d, 2))

\* the bytes a peer writes for the text t (code points below 2048)
RECURSIVE utf8_encode(_)
utf8_encode(t) ==
  IF t = <<>> THEN <<>>
  ELSE IF t[1] < 128 THEN <<t[1]>> \o utf8_encode(Tail(t))
  ELSE <<192 + (t[1] \div 64), 128 + (t[1] % 64)>> \o utf8_encode(Tail(t))

\* --------------------------------------------------------------- io.StringIO
\* mutant: read() in the place of readline()
readline_all(s) == s

\* buffer.readline() on the unread text s: up to and including the first
\* "\n", or all of s when it holds none
readline(s) ==
  IF \E i \in 1..Len(s) : s[i] = LF
  THEN Take(s, CHOOSE i \in 1..Len(s) : s[i] = LF /\ \A j \in 1..(i - 1) : s[j] # LF)
  ELSE s

\* current_line.endswith("\n")
endswith_newline(l) == Len(l) > 0 /\ l[Len(l)] = LF

\* text.split("\n") without the element after the last "\n"
RECURSIVE SplitLines(_)
SplitLines(t) ==
  LET l == readline(t)
  IN  IF endswith_newline(l)
      THEN <<Take(l, Len(l) - 1)>> \o SplitLines(Drop(t, Len(l)))
      ELSE <<>>

\* what follows the last "\n" of t
RECURSIVE Remainder(_)
Remainder(t) ==
  LET l == readline(t)
  IN  IF endswith_newline(l) THEN Remainder(Drop(t, Len(l))) ELSE l

\* ------------------------------------------------------------------- state
VARIABLES
  fs,            \* what is at the socket path: "none", "other", "socket"
  fsLocked,      \* removing the path fails (PermissionError)
  ctorResult,    \* __init__: "none" (not called), "ok", or the exception raised
  delResult,     \* __del__: "none" (not called), "ok", or the exception raised
  fsAtCtor,      \* history: fs when __init__ was called
  fsAtDel,       \* history: fs when __del__ was called
  pushedAtDel,   \* history: the number of lines pushed when __del__ was called
  socket_obj,    \* self.socket_obj in the caller: "unset", "open", "closed"
  dataCreated,   \* self.data exists
  strip_ansi,    \* the flag given to __init__ and to the listener
  sock,          \* the socket itself: "none", "bound", "listening"
  pc,            \* listener process: "none", "listen", "accept", "recv",
                 \*   "decode", "parse", "dead"
  exc,           \* the exception that ended the listener process, or "none"
  backlog,       \* peers connected and not accepted
  conn,          \* the accepted peer, 0 before accept
  buffer,        \* self.buffer from the read position on
  data_received, \* the bytes of the last recv
  accepted,      \* history: the peers accept() returned
  received,      \* history: all bytes recv() returned
  written,       \* history: all text written to self.buffer
  peer,          \* per peer: "idle", "connected", "closed", "reset"
  wire,          \* per peer: bytes written and not yet received
  text0,         \* history: per peer, all bytes it writes
  qbuffer,       \* multiprocessing.Queue: put and not yet written to the pipe
  qpipe,         \* multiprocessing.Queue: in the pipe, readable by the caller
  pushed,        \* history: the lines put_nowait was called with
  returned,      \* history: the lines get_nowait returned
  lastGet        \* outcome of the last get_nowait: "none", "line", "Empty",
                 \*   "blocked"

\* the stripping specification: the line, the result, and the calls made
VARIABLES sIn, sOut, sPc

Peers == {1, 2}

fsvars == <<fs, fsLocked>>

facvars == <<ctorResult, delResult, fsAtCtor, fsAtDel, pushedAtDel, socket_obj,
            dataCreated, strip_ansi>>

lvars == <<sock, pc, exc, backlog, conn, buffer, data_received, accepted,
          received, written>>

pvars == <<peer, wire, text0>>

qvars == <<qbuffer, qpipe, pushed>>

cvars == <<returned, lastGet>>

svars == <<sIn, sOut, sPc>>

mvars == <<fsvars, facvars, lvars, pvars, qvars, cvars>>

vars == <<mvars, svars>>

\* ------------------------------------------------------------ the facade
\* mutant: the check of the path is left out
exists_never(f) == FALSE

\* Path.exists() on the socket path
exists(f) == f # "none"

\* mutant: unlink() without missing_ok
unlink_strict(f, locked, missing_ok) ==
  IF f = "none" THEN [fs |-> f, exc |-> "FileNotFoundError"]
  ELSE IF locked THEN [fs |-> f, exc |-> "PermissionError"]
  ELSE [fs |-> "none", exc |-> "none"]

\* Path.unlink(missing_ok) on the socket path: what is at the path afterwards
\* and the exception raised ("none": it returned)
unlink(f, locked, missing_ok) ==
  IF f = "none"
  THEN [fs |-> f, exc |-> IF missing_ok THEN "none" ELSE "FileNotFoundError"]
  ELSE IF locked THEN [fs |-> f, exc |-> "PermissionError"]
  ELSE [fs |-> "none", exc |-> "none"]

\* UnixSocketQueue.__init__(socket_filepath, strip_ansi).  The generic
\* Exception raised for an occupied path is recorded as "AddressInUse".
\* bind() on a path that exists raises OSError after the socket was created.
Construct(flag) ==
  /\ ctorResult = "none"
  /\ fsAtCtor' = fs
  /\ IF exists(fs)
     THEN /\ ctorResult' = "AddressInUse"
          /\ UNCHANGED <<fs, socket_obj, dataCreated, strip_ansi, sock, pc>>
     ELSE IF fs # "none"   \* socket() succeeded, bind() raises
     THEN /\ ctorResult' = "OSError"
          /\ socket_obj' = "open"
          /\ strip_ansi' = flag
          /\ UNCHANGED <<fs, dataCreated, sock, pc>>
     ELSE /\ ctorResult' = "ok"
          /\ strip_ansi' = flag
          /\ socket_obj' = "open"
          /\ fs' = "socket"
          /\ sock' = "bound"
          /\ dataCreated' = TRUE
          /\ pc' = "listen"
  /\ UNCHANGED <<fsLocked, delResult, fsAtDel, pushedAtDel, exc, backlog, conn,
                 buffer, data_received, accepted, received, written, pvars,
                 qvars, cvars, svars>>

\* __init__ when another party creates the path after the exists() check
\* and before bind(): the socket handle is already set, bind() raises OSError
ConstructRaced(flag) ==
  /\ ctorResult = "none"
  /\ ~exists(fs)
  /\ fsAtCtor' = fs
  /\ fs' = "other"
  /\ ctorResult' = "OSError"
  /\ socket_obj' = "open"
  /\ strip_ansi' = flag
  /\ UNCHANGED <<fsLocked, delResult, fsAtDel, pushedAtDel, dataCreated, lvars,
                 pvars, qvars, cvars, svars>>

\* mutant: the path is unlinked before the socket handle is closed
del_body_unlink_first(so, f, locked) ==
  LET u == unlink(f, locked, TRUE)
  IN  IF u.exc # "none"
      THEN [socket_obj |-> so, fs |-> u.fs, result |-> u.exc]
      ELSE IF so = "unset"
      THEN [socket_obj |-> so, fs |-> u.fs, result |-> "AttributeError"]
      ELSE [socket_obj |-> "closed", fs |-> u.fs, result |-> "ok"]

\* the body of __del__: the caller's socket handle, the path, and the outcome
\* ("ok", or the exception that leaves __del__)
del_body(so, f, locked) ==
  IF so = "unset"
  THEN [socket_obj |-> so, fs |-> f, result |-> "AttributeError"]
  ELSE LET u == unlink(f, locked, TRUE)
       IN  [socket_obj |-> "closed", fs |-> u.fs,
            result |-> IF u.exc = "none" THEN "ok" ELSE u.exc]

\* mutant: __del__ also terminates the listener process
Dispose_terminate ==
  /\ ctorResult # "none"
  /\ delResult = "none"
  /\ LET d == del_body(socket_obj, fs, fsLocked)
     IN  /\ socket_obj' = d.socket_obj
         /\ fs' = d.fs
         /\ delResult' = d.result
  /\ fsAtDel' = fs
  /\ pushedAtDel' = Len(pushed)
  /\ pc' = IF pc = "none" THEN pc ELSE "dead"
  /\ exc' = IF pc \in {"none", "dead"} THEN exc ELSE "Terminated"
  /\ UNCHANGED <<fsLocked, ctorResult, fsAtCtor, dataCreated, strip_ansi,
                 sock, backlog, conn, buffer, data_received, accepted,
                 received, written, pvars, qvars, cvars, svars>>

\* UnixSocketQueue.__del__, run when the instance is disposed of; an instance
\* whose __init__ raised is disposed of too
Dispose ==
  /\ ctorResult # "none"
  /\ delResult = "none"
  /\ LET d == del_body(socket_obj, fs, fsLocked)
     IN  /\ socket_obj' = d.socket_obj
         /\ fs' = d.fs
         /\ delResult' = d.result
  /\ fsAtDel' = fs
  /\ pushedAtDel' = Len(pushed)
  /\ UNCHANGED <<fsLocked, ctorResult, fsAtCtor, dataCreated, strip_ansi,
                 lvars, pvars, qvars, cvars, svars>>

\* multiprocessing.Queue.get(block) on the pipe end of the queue
mpq_get(pipe, block) ==
  IF pipe # <<>>
  THEN [outcome |-> "line", line |-> Head(pipe), rest |-> Tail(pipe)]
  ELSE [outcome |-> IF block THEN "blocked" ELSE "Empty",
        line |-> <<>>, rest |-> pipe]

\* mutant: the newest line of the pipe is taken, not the oldest
queue_get_last(pipe) ==
  IF pipe # <<>>
  THEN [outcome |-> "line", line |-> pipe[Len(pipe)],
        rest |-> Take(pipe, Len(pipe) - 1)]
  ELSE [outcome |-> "Empty", line |-> <<>>, rest |-> pipe]

\* mutant: the line is returned and left in the pipe
queue_peek(pipe) == [mpq_get(pipe, FALSE) EXCEPT !.rest = pipe]

\* mutant: self.data.get(): the caller waits for a line
queue_get_blocking(pipe) == mpq_get(pipe, TRUE)

\* self.data.get_nowait()
queue_get_nowait(pipe) == mpq_get(pipe, FALSE)

\* UnixSocketQueue.get_nowait()
get_nowait ==
  /\ ctorResult = "ok"
  /\ delResult = "none"
  /\ lastGet # "blocked"
  /\ LET r == queue_get_nowait(qpipe)
     IN  /\ lastGet' = r.outcome
         /\ qpipe' = r.rest
         /\ returned' = IF r.outcome = "line" THEN Append(returned, r.line)
                        ELSE returned
  /\ UNCHANGED <<fsvars, facvars, lvars, pvars, qbuffer, pushed, svars>>

\* ---------------------------------------------------------- the environment
\* somebody else removes the socket path
EnvUnlink ==
  /\ fs = "socket"
  /\ ~fsLocked
  /\ fs' = "none"
  /\ UNCHANGED <<fsLocked, facvars, lvars, pvars, qvars, cvars, svars>>

\* the directory of the socket path becomes read-only
EnvLock ==
  /\ fs = "socket"
  /\ ~fsLocked
  /\ fsLocked' = TRUE
  /\ UNCHANGED <<fs, facvars, lvars, pvars, qvars, cvars, svars>>

\* a peer connects to the listening socket and writes the bytes t
PeerConnect(p, t) ==
  /\ peer[p] = "idle"
  /\ fs = "socket"
  /\ sock = "listening"
  /\ Len(backlog) < Backlog
  /\ backlog' = Append(backlog, p)
  /\ peer' = [peer EXCEPT ![p] = "connected"]
  /\ wire' = [wire EXCEPT ![p] = t]
  /\ text0' = [text0 EXCEPT ![p] = t]
  /\ UNCHANGED <<fsvars, facvars, sock, pc, exc, conn, buffer, data_received,
                 accepted, received, written, qvars, cvars, svars>>

\* a connected peer closes its end
PeerClose(p) ==
  /\ peer[p] = "connected"
  /\ peer' = [peer EXCEPT ![p] = "closed"]
  /\ UNCHANGED <<fsvars, facvars, lvars, wire, text0, qvars, cvars, svars>>

\* the connection of a peer breaks
PeerReset(p) ==
  /\ peer[p] = "connected"
  /\ peer' = [peer EXCEPT ![p] = "reset"]
  /\ UNCHANGED <<fsvars, facvars, lvars, wire, text0, qvars, cvars, svars>>

\* ------------------------------------------------------------ the listener
\* self.socket.listen(1)
listen ==
  /\ pc = "listen"
  /\ sock' = "listening"
  /\ pc' = "accept"
  /\ UNCHANGED <<fsvars, facvars, exc, backlog, conn, buffer, data_received,
                 accepted, received, written, pvars, qvars, cvars, svars>>

\* mutant: accept() is called again from the read loop
accept_again ==
  /\ pc \in {"accept", "recv"}
  /\ backlog # <<>>
  /\ conn' = Head(backlog)
  /\ backlog' = Tail(backlog)
  /\ accepted' = Append(accepted, Head(backlog))
  /\ pc' = "recv"
  /\ UNCHANGED <<fsvars, facvars, sock, exc, buffer, data_received, received,
                 written, pvars, qvars, cvars, svars>>

\* conn, accept = self.socket.accept()
accept ==
  /\ pc = "accept"
  /\ backlog # <<>>
  /\ conn' = Head(backlog)
  /\ backlog' = Tail(backlog)
  /\ accepted' = Append(accepted, Head(backlog))
  /\ pc' = "recv"
  /\ UNCHANGED <<fsvars, facvars, sock, exc, buffer, data_received, received,
                 written, pvars, qvars, cvars, svars>>

\* conn.recv(4096) returns some of the bytes written, at most 4096
recv_data ==
  /\ pc = "recv"
  /\ peer[conn] # "reset"
  /\ \E n \in 1..Len(wire[conn]) :
       /\ n <= RecvSize
       /\ data_received' = Take(wire[conn], n)
       /\ received' = received \o Take(wire[conn], n)
       /\ wire' = [wire EXCEPT ![conn] = Drop(wire[conn], n)]
  /\ pc' = "decode"
  /\ UNCHANGED <<fsvars, facvars, sock, exc, backlog, conn, buffer, accepted,
                 written, peer, text0, qvars, cvars, svars>>

\* conn.recv(4096) returns b"": the peer closed and all it wrote was read
recv_eof ==
  /\ pc = "recv"
  /\ peer[conn] = "closed"
  /\ wire[conn] = <<>>
  /\ data_received' = <<>>
  /\ pc' = "decode"
  /\ UNCHANGED <<fsvars, facvars, sock, exc, backlog, conn, buffer, accepted,
                 received, written, pvars, qvars, cvars, svars>>

\* mutant: a recv that raises is caught and the listener accepts again
recv_error_retry ==
  /\ pc = "recv"
  /\ peer[conn] = "reset"
  /\ pc' = "accept"
  /\ exc' = exc
  /\ UNCHANGED <<fsvars, facvars, sock, backlog, conn, buffer, data_received,
                 accepted, received, written, pvars, qvars, cvars, svars>>

\* conn.recv(4096) raises: the exception ends the listener process
recv_error ==
  /\ pc = "recv"
  /\ peer[conn] = "reset"
  /\ pc' = "dead"
  /\ exc' = "ConnectionResetError"
  /\ UNCHANGED <<fsvars, facvars, sock, backlog, conn, buffer, data_received,
                 accepted, received, written, pvars, qvars, cvars, svars>>

\* mutant: a chunk that does not decode is dropped and the loop goes on
decode_skip ==
  /\ pc = "decode"
  /\ IF utf8_valid(data_received)
     THEN /\ buffer' = buffer \o utf8_decode(data_received)
          /\ written' = written \o utf8_decode(data_received)
          /\ pc' = "parse"
     ELSE /\ pc' = "recv"
          /\ UNCHANGED <<buffer, written>>
  /\ UNCHANGED <<fsvars, facvars, sock, exc, backlog, conn, data_received,
                 accepted, received, pvars, qvars, cvars, svars>>

\* text_received = data_received.decode("utf-8"); self.buffer.write(...)
\* A chunk that does not decode raises UnicodeDecodeError before anything of
\* it is written to the buffer.
decode ==
  /\ pc = "decode"
  /\ IF utf8_valid(data_received)
     THEN /\ buffer' = buffer \o utf8_decode(data_received)
          /\ written' = written \o utf8_decode(data_received)
          /\ pc' = "parse"
          /\ exc' = exc
     ELSE /\ pc' = "dead"
          /\ exc' = "UnicodeDecodeError"
          /\ UNCHANGED <<buffer, written>>
  /\ UNCHANGED <<fsvars, facvars, sock, backlog, conn, data_received, accepted,
                 received, pvars, qvars, cvars, svars>>

\* mutant: the flag is ignored and the line is put on the queue as it is
queued_line_raw(line, flag) == line

\* the line put on the queue for current_line[:-1]
queued_line(line, flag) == IF flag THEN _strip_ansi(line) ELSE line

\* mutant: one readline() per call, `if` in the place of `while`
_parse_buffer_once ==
  /\ pc = "parse"
  /\ LET current_line == readline(buffer)
     IN  IF endswith_newline(current_line)
         THEN LET line == queued_line(Take(current_line, Len(current_line) - 1),
                                      strip_ansi)
              IN  /\ qbuffer' = Append(qbuffer, line)
                  /\ pushed' = Append(pushed, line)
                  /\ buffer' = Drop(buffer, Len(current_line))
                  /\ pc' = "recv"
         ELSE /\ buffer' = current_line
              /\ pc' = "recv"
              /\ UNCHANGED <<qbuffer, pushed>>
  /\ UNCHANGED <<fsvars, facvars, sock, exc, backlog, conn, data_received,
                 accepted, received, written, pvars, qpipe, cvars, svars>>

\* mutant: the partial line is not written to the new buffer
_parse_buffer_drop ==
  /\ pc = "parse"
  /\ LET current_line == readline(buffer)
     IN  IF endswith_newline(current_line)
         THEN LET line == queued_line(Take(current_line, Len(current_line) - 1),
                                      strip_ansi)
              IN  /\ qbuffer' = Append(qbuffer, line)
                  /\ pushed' = Append(pushed, line)
                  /\ buffer' = Drop(buffer, Len(current_line))
                  /\ pc' = pc
         ELSE /\ buffer' = <<>>
              /\ pc' = "recv"
              /\ UNCHANGED <<qbuffer, pushed>>
  /\ UNCHANGED <<fsvars, facvars, sock, exc, backlog, conn, data_received,
                 accepted, received, written, pvars, qpipe, cvars, svars>>

\* _parse_buffer, one readline() at a time: a line that ends in "\n" is put
\* on the queue without it; anything else is the partial line, written to
\* the new buffer, and the listener returns to recv
_parse_buffer ==
  /\ pc = "parse"
  /\ LET current_line == readline(buffer)
     IN  IF endswith_newline(current_line)
         THEN LET line == queued_line(Take(current_line, Len(current_line) - 1),
                                      strip_ansi)
              IN  /\ qbuffer' = Append(qbuffer, line)
                  /\ pushed' = Append(pushed, line)
                  /\ buffer' = Drop(buffer, Len(current_line))
                  /\ pc' = pc
         ELSE /\ buffer' = current_line
              /\ pc' = "recv"
              /\ UNCHANGED <<qbuffer, pushed>>
  /\ UNCHANGED <<fsvars, facvars, sock, exc, backlog, conn, data_received,
                 accepted, received, written, pvars, qpipe, cvars, svars>>

\* mutant: the feeder drops the line it took from the buffer
feed_lossy ==
  /\ qbuffer # <<>>
  /\ qpipe' = qpipe
  /\ qbuffer' = Tail(qbuffer)
  /\ UNCHANGED <<fsvars, facvars, lvars, pvars, pushed, cvars, svars>>

\* the feeder thread of the queue in the listener process writes the oldest
\* buffered line to the pipe; it also runs when the process exits
feed ==
  /\ qbuffer # <<>>
  /\ qpipe' = Append(qpipe, Head(qbuffer))
  /\ qbuffer' = Tail(qbuffer)
  /\ UNCHANGED <<fsvars, facvars, lvars, pvars, pushed, cvars, svars>>

\* ---------------------------------------------------------- specifications
MainInit ==
  /\ fs \in {"none", "other"}
  /\ fsLocked = FALSE
  /\ ctorResult = "none"
  /\ delResult = "none"
  /\ fsAtCtor = "none"
  /\ fsAtDel = "none"
  /\ pushedAtDel = 0
  /\ socket_obj = "unset"
  /\ dataCreated = FALSE
  /\ strip_ansi = FALSE
  /\ sock = "none"
  /\ pc = "none"
  /\ exc = "none"
  /\ backlog = <<>>
  /\ conn = 0
  /\ buffer = <<>>
  /\ data_received = <<>>
  /\ accepted = <<>>
  /\ received = <<>>
  /\ written = <<>>
  /\ peer = [p \in Peers |-> "idle"]
  /\ wire = [p \in Peers |-> <<>>]
  /\ text0 = [p \in Peers |-> <<>>]
  /\ qbuffer = <<>>
  /\ qpipe = <<>>
  /\ pushed = <<>>
  /\ returned = <<>>
  /\ lastGet = "none"

StripIdle == sIn = <<>> /\ sOut = <<>> /\ sPc = 0

\* the texts peers write in the main specification: two lines; a line and
\* then a byte that is not UTF-8; an escape sequence; a 2-byte character; a
\* line and an unterminated fragment
MainTexts ==
  { <<97, LF, 98, LF>>,
    <<97, LF, 255, LF>>,
    <<ESC, LBRACKET, 109, 97, LF>>,
    <<195, 169, LF>>,
    <<97, LF, 98>> }

\* the second peer writes one line of its own
PeerTexts(p) == IF p = 1 THEN MainTexts ELSE {<<120, LF>>}

Init == MainInit /\ StripIdle

Next ==
  \/ \E flag \in BOOLEAN : Construct(flag)
  \/ \E flag \in BOOLEAN : ConstructRaced(flag)
  \/ Dispose
  \/ get_nowait
  \/ EnvUnlink
  \/ EnvLock
  \/ \E p \in Peers : \E t \in PeerTexts(p) : PeerConnect(p, t)
  \/ \E p \in Peers : PeerClose(p)
  \/ \E p \in Peers : PeerReset(p)
  \/ listen
  \/ accept
  \/ recv_data
  \/ recv_eof
  \/ recv_error
  \/ decode
  \/ _parse_buffer
  \/ feed

Spec == Init /\ [][Next]_vars

\* ------------------------------------------------- claims about the queue
\* the lines _parse_buffer puts on the queue for the text t
LinesOf(t, flag) ==
  [i \in 1..Len(SplitLines(t)) |-> queued_line(SplitLines(t)[i], flag)]

\* C2: in every interleaving of the listener's pushes and the caller's
\* get_nowait calls, the lines returned are a prefix of the lines pushed, in
\* push order, which is the order in which their newlines were received;
\* nothing is reordered, duplicated or skipped.
C2_Fifo ==
  /\ IsPrefix(returned, pushed)
  /\ returned \o qpipe \o qbuffer = pushed
  /\ IsPrefix(pushed, LinesOf(written, strip_ansi))

\* C2: both lines of "a\nb\n" were returned, the first while the second was
\* not yet pushed or still on its way
C2_Witness ==
  /\ returned = <<<<97>>, <<98>>>>
  /\ pushed = returned
  /\ lastGet = "line"

\* C3 as claimed: get_nowait raises Empty when no pushed line is pending; once
\* the push of a line has completed (it is the one line pending), the next
\* get_nowait returns that line and removes it.
C3_EmptyContract ==
  ctorResult = "ok" =>
    LET pending == Drop(pushed, Len(returned))
        r == queue_get_nowait(qpipe)
    IN  /\ pending = <<>> => r.outcome = "Empty"
        /\ Len(pending) = 1 =>
             /\ r.outcome = "line"
             /\ r.line = pending[1]
             /\ r.rest \o qbuffer = <<>>

\* C3 as amended: get_nowait raises Empty exactly when no line has reached the
\* caller's end of the queue, which a pushed line does only when the queue's
\* feeder has written it to the pipe; otherwise it returns the oldest pushed
\* line not yet returned and removes it, so that no later call returns it.
C3_EmptyContractAmended ==
  ctorResult = "ok" =>
    LET pending == Drop(pushed, Len(returned))
        r == queue_get_nowait(qpipe)
    IN  /\ returned \o qpipe \o qbuffer = pushed
        /\ qpipe = <<>> => r.outcome = "Empty" /\ r.rest = qpipe
        /\ qpipe # <<>> =>
             /\ r.outcome = "line"
             /\ r.line = pending[1]
             /\ r.rest \o qbuffer = Tail(pending)
        /\ lastGet = "line" => returned # <<>>

\* C3: the one line pushed so far was returned by get_nowait and removed
\* while the listener was still in _parse_buffer
C3_Witness ==
  /\ Len(pushed) = 1
  /\ returned = pushed
  /\ lastGet = "line"
  /\ qpipe = <<>>
  /\ pc = "parse"

\* C4: the caller never blocks: whatever the listener is doing, __init__ has
\* returned without waiting for a connection and a get_nowait call can be
\* made and completes at once with a line or Empty.
C4_CallerNeverBlocks ==
  /\ lastGet \in {"none", "line", "Empty"}
  /\ (ctorResult = "ok" /\ delResult = "none") =>
       /\ pc \in {"listen", "accept", "recv", "decode", "parse", "dead"}
       /\ ENABLED get_nowait
  /\ (ctorResult = "none") => pc = "none"

\* C4: get_nowait completed with Empty while the listener was blocked in
\* accept with nobody connecting
C4_Witness ==
  /\ lastGet = "Empty"
  /\ pc = "accept"
  /\ backlog = <<>>
  /\ conn = 0

\* C5: __init__ on a path where something exists raises and creates nothing:
\* no socket is created or bound, no queue is created, no listener started.
C5_ConstructionGuard ==
  (ctorResult # "none" /\ fsAtCtor # "none") =>
    /\ ctorResult = "AddressInUse"
    /\ socket_obj = "unset"
    /\ sock = "none"
    /\ fs # "socket"
    /\ ~dataCreated
    /\ pc = "none"

\* C5: __init__ was called on an occupied path and raised
C5_Witness ==
  /\ fsAtCtor = "other"
  /\ ctorResult = "AddressInUse"

ChunkInHand ==
  IF pc = "decode" \/ exc = "UnicodeDecodeError" THEN data_received ELSE <<>>

\* what holds in every state of a listener that may fail
C9_State ==
  /\ lastGet \in {"none", "line", "Empty"}
  /\ ctorResult \in {"none", "ok", "AddressInUse", "OSError"}
  /\ delResult \in {"none", "ok", "PermissionError", "AttributeError"}
  /\ pc = "dead" <=> exc # "none"
  /\ received = utf8_encode(written) \o ChunkInHand
  /\ exc = "UnicodeDecodeError" => ~utf8_valid(data_received)
  /\ pc = "dead" => pushed = LinesOf(written, strip_ansi)
  /\ returned \o qpipe \o qbuffer = pushed
  /\ (pc = "dead" /\ returned = pushed) =>
       queue_get_nowait(qpipe).outcome = "Empty"

\* C9: a decode failure or a receive error in the listener is not reported
\* to the caller; the listener pushes no further line, none of the failing
\* chunk and none of later data; the lines already queued are still returned
\* in order and then every get_nowait raises Empty; get_nowait yields
\* nothing but a line or Empty.
C9_SilentFailure ==
  /\ []C9_State
  /\ [][pc = "dead" => (pc' = "dead" /\ exc' = exc /\ pushed' = pushed
                         /\ written' = written /\ received' = received)]_vars

\* C9: the chunk "a\n\xff\n" did not decode: its complete line "a" was not
\* pushed either, and get_nowait raised Empty
C9_Witness ==
  /\ exc = "UnicodeDecodeError"
  /\ data_received = <<97, LF, 255, LF>>
  /\ pushed = <<>>
  /\ lastGet = "Empty"

\* C10: the listener accepts one connection and never a second one, whatever
\* happens to the first; only bytes of the first peer are received and
\* reach the queue.
C10_SingleConnection ==
  /\ Len(accepted) <= 1
  /\ conn = 0 <=> accepted = <<>>
  /\ conn = 0 => (received = <<>> /\ pushed = <<>>)
  /\ conn # 0 =>
       /\ accepted = <<conn>>
       /\ received \o wire[conn] = text0[conn]
       /\ IsPrefix(utf8_encode(written), text0[conn])
  /\ \A p \in Peers \ {conn} : wire[p] = text0[p]

\* C10: the first peer has disconnected and all it wrote was read; the
\* second peer has connected and written and is never accepted
C10_Witness ==
  /\ accepted = <<1>>
  /\ peer[1] = "closed"
  /\ wire[1] = <<>>
  /\ backlog = <<2>>
  /\ wire[2] # <<>>
  /\ pc = "recv"
  /\ pushed # <<>>

\* ----------------------------------------------------- the reassembly spec
\* the characters of the texts of the reassembly specification: "\n", "a"
\* and U+00E9, which UTF-8 writes as the two bytes 195 169
ReasmChars == {LF, 97, 233}

\* one peer connects and writes the UTF-8 bytes of any text of at most MaxLen
\* characters; recv_data cuts the bytes into chunks in every possible way;
\* the peer may close at any time, and recv then returns b"" once the bytes
\* are taken
ReasmNext ==
  \/ \E flag \in BOOLEAN : Construct(flag)
  \/ listen
  \/ \E t \in SeqsUpTo(ReasmChars, MaxLen) : PeerConnect(1, utf8_encode(t))
  \/ PeerClose(1)
  \/ accept
  \/ recv_data
  \/ recv_eof
  \/ decode
  \/ _parse_buffer

ReasmInit == MainInit /\ fs = "none" /\ StripIdle

SpecReasm == ReasmInit /\ [][ReasmNext]_vars

\* the listener has taken every byte the accepted peer wrote and is back in
\* recv
AllConsumed == conn # 0 /\ wire[conn] = <<>> /\ pc = "recv"

\* nothing more is pushed for what the accepted peer wrote: all of it was
\* consumed, or the listener has ended
ListenerDone == AllConsumed \/ (conn # 0 /\ pc = "dead")

\* C1: for every text ending in a newline and every way of cutting it into
\* non-empty chunks (strip_ansi off), the lines pushed are the text split on
\* newline without the final empty element.
C1_Reassembly ==
  (/\ ListenerDone
   /\ ~strip_ansi
   /\ endswith_newline(utf8_decode(text0[conn])))
  => pushed = SplitLines(utf8_decode(text0[conn]))

\* C1, where the code does keep it: whenever every chunk decoded on its own,
\* so that the listener is back in recv
C1_ReassemblyOfDecodedChunks ==
  (/\ AllConsumed
   /\ ~strip_ansi
   /\ endswith_newline(utf8_decode(text0[conn])))
  => pushed = SplitLines(utf8_decode(text0[conn]))

\* ----------------------------------------------------- the end-to-end spec
\* "hello" and "world"
Hello == <<104, 101, 108, 108, 111>>

World == <<119, 111, 114, 108, 100>>

\* the bytes of "\x1b[31mhello\x1b[0m\nworld\n"
Scenario ==
  <<ESC, LBRACKET, 51, 49, 109>> \o Hello \o <<ESC, LBRACKET, 48, 109, LF>>
    \o World \o <<LF>>

\* strip_ansi is on, one client connects and writes the scenario; the
\* listener receives it in one piece or in several, and the caller polls at
\* any time
E2ENext ==
  \/ Construct(TRUE)
  \/ listen
  \/ PeerConnect(1, Scenario)
  \/ accept
  \/ recv_data
  \/ decode
  \/ _parse_buffer
  \/ feed
  \/ get_nowait

E2EInit == MainInit /\ fs = "none" /\ StripIdle

SpecE2E == E2EInit /\ [][E2ENext]_vars

\* everything the peer wrote has gone through the listener and the queue's
\* feeder
Quiescent == AllConsumed /\ qbuffer = <<>>

\* C6: with strip_ansi on, after the client has sent
\* "\x1b[31mhello\x1b[0m\nworld\n", the polls return "hello", then "world",
\* and a poll after these two raises Empty.
C6_EndToEnd ==
  /\ IsPrefix(returned, <<Hello, World>>)
  /\ Quiescent => returned \o qpipe = <<Hello, World>>
  /\ (Quiescent /\ returned = <<>>) => queue_get_nowait(qpipe).line = Hello
  /\ (Quiescent /\ returned = <<Hello>>) => queue_get_nowait(qpipe).line = World
  /\ returned = <<Hello, World>> => queue_get_nowait(qpipe).outcome = "Empty"

\* C6: two polls returned "hello" and "world" and the poll after them raised
\* Empty
C6_Witness ==
  /\ Quiescent
  /\ received = Scenario
  /\ returned = <<Hello, World>>
  /\ lastGet = "Empty"

\* ------------------------------------------------------- the stripping spec
StripAlphabet == {ESC, LBRACKET, 49, 32, 109}

StripInit ==
  /\ MainInit
  /\ fs = "none"
  /\ sIn \in SeqsUpTo(StripAlphabet, MaxStripLen)
  /\ sOut = <<>>
  /\ sPc = 0

\* one call of _strip_ansi on the line, then one on its result
StripOnce ==
  /\ sPc = 0
  /\ sOut' = _strip_ansi(sIn)
  /\ sPc' = 1
  /\ UNCHANGED <<sIn, mvars>>

StripAgain ==
  /\ sPc = 1
  /\ sOut' = _strip_ansi(sOut)
  /\ sPc' = 2
  /\ UNCHANGED <<sIn, mvars>>

StripNext == StripOnce \/ StripAgain

SpecStrip == StripInit /\ [][StripNext]_vars

\* C8: stripping is idempotent, strip(strip(x)) = strip(x), and a line that
\* was stripped once holds no removable escape sequence.
C8_Idempotent ==
  /\ (sPc = 1 => ~HasEscape(sOut))
  /\ (sPc = 2 => sOut = _strip_ansi(sIn))

\* every ESC of the line starts an escape sequence
EveryEscStartsSequence(text) ==
  \A i \in 1..Len(text) : text[i] = ESC => MatchEnd(text, i) > 0

\* C8, where the code does keep it: on a line in which every ESC starts an
\* escape sequence
C8_IdempotentOnWellFormed ==
  EveryEscStartsSequence(sIn) =>
    /\ (sPc = 1 => ~HasEscape(sOut))
    /\ (sPc = 2 => sOut = _strip_ansi(sIn))

\* ------------------------------------------------------ stream conservation
\* the lines ls, each followed by "\n"
RECURSIVE JoinLines(_)
JoinLines(ls) ==
  IF ls = <<>> THEN <<>> ELSE Head(ls) \o <<LF>> \o JoinLines(Tail(ls))

\* C11: with strip_ansi off, whenever the listener waits for the next chunk,
\* the chunks received so far, concatenated, are the lines pushed so far,
\* each followed by a newline, in order, followed by the pending buffer; so a
\* fragment without a newline is never pushed, also not after the peer has
\* disconnected.
C11_StreamConservation ==
  (pc = "recv" /\ ~strip_ansi) =>
    /\ received = utf8_encode(JoinLines(pushed) \o buffer)
    /\ pushed = SplitLines(written)
    /\ buffer = Remainder(written)

\* C11: "aa\n" then the fragment "a" arrived, the peer disconnected and the
\* empty read was fed: one line was pushed and the fragment is still pending
C11_Witness ==
  /\ pc = "recv"
  /\ ~strip_ansi
  /\ conn # 0
  /\ peer[conn] = "closed"
  /\ data_received = <<>>
  /\ received = <<97, 97, LF, 97>>
  /\ pushed = <<(<<97, 97>>)>>
  /\ buffer = <<97>>

\* ---------------------------------------------------------- peer disconnect
\* the last recv returned b"" and the loop has not yet gone on with it
EmptyReadInHand == pc = "decode" /\ data_received = <<>>

\* C12: when the peer disconnects and a receive returns an empty read, the
\* read loop stops and the listener is Terminated; it does not go on to feed
\* the empty chunk and receive again.
C12_DisconnectTerminates ==
  [][(EmptyReadInHand /\ pc' # pc) => pc' = "dead"]_vars

\* what the code does with an empty read: it is decoded, written and parsed
\* like any chunk, nothing is pushed for it, and the listener is back in recv
\* with the same connection, where the next recv returns b"" again
C12_EmptyReadIsFed ==
  /\ [][(EmptyReadInHand /\ pc' # pc)
         => (pc' = "parse" /\ UNCHANGED <<buffer, conn, pushed, exc>>)]_vars
  /\ [](EmptyReadInHand => ENABLED decode)
  /\ []((pc = "recv" /\ conn # 0 /\ peer[conn] = "closed" /\ wire[conn] = <<>>)
         => ENABLED recv_eof)

\* ------------------------------------------------------------ line framing
\* the text t holds a "\n"
HasNewline(t) == \E i \in 1..Len(t) : t[i] = LF

\* C13: after every completed feed the pending buffer holds no newline, and
\* no line that was pushed holds one.
C13_NoNewlineLeft ==
  /\ pc = "recv" => ~HasNewline(buffer)
  /\ \A i \in 1..Len(pushed) : ~HasNewline(pushed[i])

\* C13: "a\n\na" was fed: the lines "a" and "" were pushed and "a" is pending
C13_Witness ==
  /\ pc = "recv"
  /\ written = <<97, LF, LF, 97>>
  /\ pushed = <<(<<97>>), <<>>>>
  /\ buffer = <<97>>

\* ------------------------------------------------------- the filtering spec
\* the characters of the texts of the filtering specification: "\n", ESC,
\* "[", "m" and U+00E9; ESC [ m is the shortest escape sequence
FilterChars == {LF, ESC, LBRACKET, 109, 233}

\* one peer connects and writes the UTF-8 bytes of any text of at most MaxLen
\* characters; recv_data cuts the bytes into chunks in every possible way,
\* also inside an escape sequence
FilterNext ==
  \/ \E flag \in BOOLEAN : Construct(flag)
  \/ listen
  \/ \E t \in SeqsUpTo(FilterChars, MaxLen) : PeerConnect(1, utf8_encode(t))
  \/ accept
  \/ recv_data
  \/ decode
  \/ _parse_buffer

FilterInit == MainInit /\ fs = "none" /\ StripIdle

SpecFilter == FilterInit /\ [][FilterNext]_vars

\* C14: for every text ending in a newline and every way of cutting it into
\* chunks, also inside an escape sequence, the lines pushed are the lines of
\* the unchunked text, each stripped when strip_ansi is on and unchanged when
\* it is off; the pending buffer is never stripped.
C14_FilterIndependentOfChunking ==
  /\ (ListenerDone /\ endswith_newline(utf8_decode(text0[conn])))
       => pushed = LinesOf(utf8_decode(text0[conn]), strip_ansi)
  /\ pc = "recv" => buffer = Remainder(written)

\* C14, where the code does keep it: whenever every chunk decoded on its own,
\* so that the listener is back in recv
C14_FilterOfDecodedChunks ==
  /\ (AllConsumed /\ endswith_newline(utf8_decode(text0[conn])))
       => pushed = LinesOf(utf8_decode(text0[conn]), strip_ansi)
  /\ pc = "recv" => buffer = Remainder(written)

\* an escape sequence was cut by a chunk boundary and still removed from the
\* line
C14_CutSequenceStripped ==
  /\ AllConsumed
  /\ strip_ansi
  /\ received = <<ESC, LBRACKET, 109, LF>>
  /\ data_received = <<109, LF>>
  /\ pushed = <<(<<>>)>>

\* ------------------------------------------------------ listener lifecycle
\* the position in Created (0), Bound (1), Listening (2), Accepted and
\* Streaming (3: the connection is held and the read loop runs), Terminated
\* (4)
LifecycleRank ==
  IF pc = "dead" THEN 4
  ELSE IF pc \in {"recv", "decode", "parse"} THEN 3
  ELSE IF pc = "accept" THEN 2
  ELSE IF sock = "bound" THEN 1
  ELSE 0

\* the same position after the step
LifecycleRankNext ==
  IF pc' = "dead" THEN 4
  ELSE IF pc' \in {"recv", "decode", "parse"} THEN 3
  ELSE IF pc' = "accept" THEN 2
  ELSE IF sock' = "bound" THEN 1
  ELSE 0

\* what each lifecycle state has behind it
LifecycleState ==
  /\ pc # "none" => (ctorResult = "ok" /\ sock # "none")
  /\ LifecycleRank >= 2 <=> sock = "listening"
  /\ LifecycleRank >= 3 <=> conn # 0
  /\ LifecycleRank >= 3 <=> accepted # <<>>
  /\ (received # <<>> \/ data_received # <<>>) => conn # 0
  /\ pushed # <<>> => conn # 0

\* C15: the listener passes Created, Bound, Listening, Accepted, Streaming,
\* Terminated forwards only, one state at a time: the facade has bound the
\* socket before the listener starts, listen comes before accept, accept
\* before the first receive, no line is pushed before a connection was
\* accepted, and Terminated is never left.
C15_LifecycleOrder ==
  /\ []LifecycleState
  /\ [][/\ LifecycleRankNext >= LifecycleRank
        /\ LifecycleRankNext <= LifecycleRank + 1
        /\ pc = "dead" => pc' = "dead"
        /\ (received' # received \/ pushed' # pushed) => conn # 0]_vars

\* C15: the listener went through every state: it pushed a line from the
\* accepted connection, and a receive error then ended it
C15_Witness ==
  /\ pc = "dead"
  /\ exc = "ConnectionResetError"
  /\ sock = "listening"
  /\ accepted = <<conn>>
  /\ pushed # <<>>

\* -------------------------------------------------------- delivery liveness
\* the listener process is scheduled: each of its steps that stays possible
\* is taken, and so is each step of the feeder thread of its queue; the
\* caller goes on polling
LiveFairness ==
  /\ WF_vars(listen)
  /\ WF_vars(accept)
  /\ WF_vars(recv_data)
  /\ WF_vars(recv_eof)
  /\ WF_vars(recv_error)
  /\ WF_vars(decode)
  /\ WF_vars(_parse_buffer)
  /\ WF_vars(feed)
  /\ WF_vars(get_nowait)

\* one peer writes any of the texts of MainTexts, closes or resets at any
\* time; the caller polls at any time and may dispose of the facade
LiveNext ==
  \/ \E flag \in BOOLEAN : Construct(flag)
  \/ Dispose
  \/ get_nowait
  \/ \E t \in MainTexts : PeerConnect(1, t)
  \/ PeerClose(1)
  \/ PeerReset(1)
  \/ listen
  \/ accept
  \/ recv_data
  \/ recv_eof
  \/ recv_error
  \/ decode
  \/ _parse_buffer
  \/ feed

LiveInit == MainInit /\ fs = "none" /\ StripIdle

SpecLive == LiveInit /\ [][LiveNext]_vars /\ LiveFairness

\* the number of "\n" in the bytes received so far
NewlinesReceived == Cardinality({i \in 1..Len(received) : received[i] = LF})

\* the listener has ended, or the caller has disposed of the facade and polls
\* no more
DeliveryOff == pc = "dead" \/ delResult # "none"

\* C16: when the listener is scheduled fairly and does not terminate and the
\* caller keeps polling, every line whose newline was received is eventually
\* returned by a get_nowait, and once only: the lines returned are always
\* the first lines of the stream, each in its own place.
C16_DeliveryLiveness ==
  /\ []IsPrefix(returned, LinesOf(written, strip_ansi))
  /\ \A k \in 1..MaxLen :
       (NewlinesReceived >= k) ~> (Len(returned) >= k \/ DeliveryOff)

\* C16: two newlines were received and both lines were returned, while the
\* listener is alive and the facade in use
C16_Witness ==
  /\ NewlinesReceived = 2
  /\ Len(returned) = 2
  /\ returned = LinesOf(written, strip_ansi)
  /\ ~DeliveryOff
  /\ pc = "recv"

\* ------------------------------------------------------------- no overwrite
\* C17: when __init__ fails because something is at the path already, that
\* object is never removed or replaced: not by the failed __init__ and not
\* by the __del__ of the partially constructed instance, which ends in
\* AttributeError before it reaches unlink.
C17_NoOverwrite ==
  (ctorResult # "none" /\ fsAtCtor # "none") =>
    /\ fs = fsAtCtor
    /\ delResult \in {"none", "AttributeError"}
    /\ delResult # "none" => (fsAtDel = fsAtCtor /\ socket_obj = "unset")

\* C17: __init__ failed on an occupied path, the instance was disposed of,
\* and what was at the path is still there
C17_Witness ==
  /\ fsAtCtor = "other"
  /\ ctorResult = "AddressInUse"
  /\ delResult = "AttributeError"
  /\ fs = "other"

\* an object that appeared between the exists() check and bind() is removed
\* by __del__: it was not at the path when __init__ was called
C17_RacedObjectRemoved ==
  /\ ctorResult = "OSError"
  /\ fsAtCtor = "none"
  /\ fsAtDel = "other"
  /\ delResult = "ok"
  /\ fs = "none"

\* ------------------------------------------------------------ single owner
\* the lines in the queue, oldest first: those in the pipe, then those the
\* feeder has not yet written to it
QueueLines == qpipe \o qbuffer

\* the same after the step
QueueLinesNext == qpipe' \o qbuffer'

\* what the listener process alone reads and writes
ownvars == <<sock, pc, exc, conn, buffer, data_received, accepted, received,
            written>>

\* the step is a get_nowait that did something
GetStep == returned' # returned \/ lastGet' # lastGet

\* the step is one of the listener process
ListenerStep == pc # "none" /\ (ownvars' # ownvars \/ qbuffer' # qbuffer)

\* C18: get_nowait changes nothing but the queue: the pending buffer, the
\* connection and the listener state stay as they are, and a get_nowait that
\* raises Empty leaves the queue as it is too; only the listener appends to
\* the queue or changes the pending buffer, and it never removes a line from
\* the queue.
C18_SingleOwnerFrame ==
  [][/\ GetStep =>
          /\ UNCHANGED <<fsvars, facvars, lvars, pvars, pushed>>
          /\ lastGet' \in {"line", "Empty"}
          /\ lastGet' = "Empty" =>
               (QueueLinesNext = QueueLines /\ returned' = returned)
          /\ lastGet' = "line" =>
               (/\ QueueLines = <<Head(QueueLines)>> \o QueueLinesNext
                /\ returned' = Append(returned, Head(QueueLines)))
     /\ (buffer' # buffer \/ pushed' # pushed
           \/ Len(QueueLinesNext) > Len(QueueLines)) =>
          (ListenerStep /\ pc \in {"decode", "parse"} /\ ~GetStep)
     /\ ListenerStep =>
          /\ UNCHANGED cvars
          /\ \/ QueueLinesNext = QueueLines
             \/ /\ pushed' # pushed
                /\ QueueLinesNext = Append(QueueLines, pushed'[Len(pushed')])
    ]_vars

\* C18: a get_nowait returned a line and a later one raised Empty, with a
\* partial line pending in the listener, which holds the connection
C18_Witness ==
  /\ lastGet = "Empty"
  /\ returned # <<>>
  /\ QueueLines = <<>>
  /\ buffer # <<>>
  /\ conn # 0
  /\ pc = "recv"

\* ---------------------------------------------------------- no cancellation
\* every step the listener process could take without the disposal, it can
\* take after it
ListenerGoesOn ==
  /\ pc = "listen" => ENABLED listen
  /\ (pc = "accept" /\ backlog # <<>>) => ENABLED accept
  /\ (pc = "recv" /\ peer[conn] # "reset" /\ wire[conn] # <<>>)
       => ENABLED recv_data
  /\ pc = "decode" => ENABLED decode
  /\ pc = "parse" => ENABLED _parse_buffer
  /\ qbuffer # <<>> => ENABLED feed

\* C19: __del__ sends the listener no stop signal: the step that closes the
\* facade's socket handle and unlinks the path leaves the listener, its
\* connection and the queue as they were, and afterwards the listener goes
\* on as before, pushing the lines it receives on the accepted connection.
C19_NoCancellation ==
  /\ [][(delResult = "none" /\ delResult' # "none")
         => UNCHANGED <<lvars, pvars, qvars>>]_vars
  /\ [](delResult # "none" => ListenerGoesOn)

\* C19: the facade was disposed of, handle closed and path unlinked, and the
\* listener has pushed a line after that
C19_Witness ==
  /\ ctorResult = "ok"
  /\ delResult = "ok"
  /\ socket_obj = "closed"
  /\ fsAtDel = "socket"
  /\ fs = "none"
  /\ Len(pushed) > pushedAtDel
  /\ pc # "dead"

====
